---------------------------- MODULE Spec2Model ----------------------------
(***************************************************************************)
(* The polling-cycle controller and the duplicate-tracking store of the    *)
(* RSS auto-poster, in its two variants:                                   *)
(*   "ctl"  : src/info_sender/mainn.py, class BotController (is_running,   *)
(*            stop_event, worker_thread, rss_loop) with the module-level   *)
(*            sent_entries and stats;                                      *)
(*   "file" : src/main.py, the globals is_running / bot_thread /           *)
(*            sent_news / stats, bot_worker, and the sent_news.txt file.   *)
(* Command handlers run on the messaging library's handler threads, the    *)
(* polling loop on the threads that start() spawns.  One step of the model *)
(* is one statement (or one blocking call) of one thread.                  *)
(***************************************************************************)
EXTENDS Integers, Sequences, FiniteSets, TLC

(***************************************************************************)
(* Bounds of the model.                                                    *)
(***************************************************************************)
MaxWorkers == 2        \* threads that can be alive at once
MaxCommands == 2       \* commands the operator sends
MaxPosts == 1          \* cap of stats['posts_sent']
MaxErrors == 1         \* cap of stats['errors']
WaitTicks == 1         \* CHECK_INTERVAL, in ticks of the clock
MAX_HISTORY == 1       \* the history cap H of the file variant

InspectCap == 10       \* feed.entries[:10]

Handlers == {1, 2}
Workers == 1..MaxWorkers
NoWorker == 0
NoLink == "-"
NoFile == {"<absent>"}
NoCall == [fn |-> "none"]

RSS_URLS == <<"u1", "u2">>

\* What the feed source returns for a URL, newest entry first: the links.
FeedEntries(url) == IF url = "u1" THEN <<"b", "a">> ELSE <<"a">>

Links == {"a", "b"}

VARIABLES
    variant,        \* "ctl" or "file": which program runs
    is_running,     \* the run flag
    stop_event,     \* ctl: threading.Event
    worker_thread,  \* the thread object last stored by start (NoWorker = None)
    stats,          \* the stats dict
    sent,           \* sent_entries / sent_news: the dedup set
    history_file,   \* file: the ids in sent_news.txt, or NoFile
    hd,             \* per handler thread: position, pending restart, last result
    wk,             \* per worker thread: position and locals
    ncmd,           \* commands the operator can still send
    recorded,       \* history: every id ever added to the dedup set
    stopReq,        \* history: some stop/pause passed its is_running check
    waitIssued,     \* history, per stop call before its signal: workers in the wait
    waitStopped,    \* history: workers signalled to stop while in the wait
    stopped,        \* history: workers alive when a stop returned success
    unit            \* the function application under examination (SpecUnits)

vars == <<variant, is_running, stop_event, worker_thread, stats, sent,
          history_file, hd, wk, ncmd, recorded, stopReq, waitIssued, waitStopped,
          stopped, unit>>

-----------------------------------------------------------------------------
(***************************************************************************)
(* Helpers.                                                                *)
(***************************************************************************)
RECURSIVE Reverse(_)
Reverse(s) == IF s = <<>> THEN <<>> ELSE Append(Reverse(Tail(s)), Head(s))

Prefix(s, n) == SubSeq(s, 1, IF Len(s) < n THEN Len(s) ELSE n)

StatsInit == [start_time |-> FALSE, posts_sent |-> 0, errors |-> 0,
              last_check |-> FALSE, last_post |-> FALSE]

DeadWorker == [pc |-> "dead", url |-> 0, items |-> <<>>, cur |-> NoLink, left |-> 0]

\* result: what the last call of start/stop/pause on this thread returned
\* ("True": it acted, "False": the already-running / already-stopped signal).
IdleHandler == [pc |-> "idle", restart |-> FALSE, result |-> "none"]

Alive(w) == wk[w].pc # "dead"

AliveWorkers == {w \in Workers : Alive(w)}

FreeSlots == Workers \ AliveWorkers

\* Handlers that have passed start's check and not yet spawned their thread.
PendingSpawns == {h \in Handlers : \/ hd[h].pc \in {"start_set", "start_clear", "start_spawn"}
                                    \/ (variant = "file" /\ hd[h].pc = "start_stats")}

\* A further start may pass its check only if a thread slot remains for it.
SlotLeft == Cardinality(FreeSlots) > Cardinality(PendingSpawns)

NewSlot == CHOOSE w \in FreeSlots : \A v \in FreeSlots : w <= v

Step(h, pc) == [hd EXCEPT ![h].pc = pc]

Ret(h, r) == [hd EXCEPT ![h] = [pc |-> "idle", restart |-> FALSE, result |-> r]]

\* The handler thread that takes the next command: the pool hands a command to
\* an idle thread, and which idle thread it is makes no difference.
Dispatched(h) == /\ hd[h].pc = "idle"
                 /\ \A g \in Handlers : hd[g].pc = "idle" => g >= h


-----------------------------------------------------------------------------
(***************************************************************************)
(* History variables.  They record what happened and decide nothing.       *)
(***************************************************************************)
\* A start is invoked: the stop calls still before their signal are no longer
\* calls with no start since they were issued, and the workers marked below
\* are no longer covered by "no start in between".
NoteStart == /\ waitIssued' = [h \in Handlers |-> {}]
             /\ waitStopped' = {}
             /\ stopped' = {}

\* The stop or pause call of handler h passes its check: the workers that are
\* in the inter-cycle wait when it is issued.
NoteIssued(h) == waitIssued' = [waitIssued EXCEPT ![h] = {w \in Workers : wk[w].pc = "wait"}]

\* The stop or pause call of handler h makes its request visible: the workers
\* in the wait since it was issued are the ones it stops in the wait.
NoteSignal(h) == /\ waitStopped' = waitStopped \cup {w \in waitIssued[h] : wk[w].pc = "wait"}
                 /\ waitIssued' = [waitIssued EXCEPT ![h] = {}]
                 /\ UNCHANGED stopped

\* Worker w passes the while condition into a cycle.
NoteLeft(w) == /\ waitStopped' = waitStopped \ {w}
               /\ waitIssued' = [h \in Handlers |-> waitIssued[h] \ {w}]
               /\ UNCHANGED stopped

\* Worker w ends.
NoteExit(w) == /\ waitStopped' = waitStopped \ {w}
               /\ waitIssued' = [h \in Handlers |-> waitIssued[h] \ {w}]
               /\ stopped' = stopped \ {w}

\* A stop call returns its success result.
NoteStopped == stopped' = AliveWorkers

-----------------------------------------------------------------------------
(***************************************************************************)
(* The control operations.                                                 *)
(*   ctl : BotController.start, BotController.stop, restart_command        *)
(*   file: start_bot, pause_bot, stop_bot, restart_bot                     *)
(***************************************************************************)
\* A start that does not look at the run flag.
AlreadyRunning_Unchecked == FALSE

\* start: "if self.is_running: return False" / "if is_running: return ..."
AlreadyRunning == is_running

\* A stop without its opening check, which always goes on to its writes.
AlreadyStopped_Unchecked == FALSE

\* stop: "if not self.is_running: return False" / "if not is_running: return ..."
AlreadyStopped == ~is_running

\* The handler after start's check found the bot running.
StartRefused(h) == Ret(h, "False")

\* The check that opens start, made by the start command (from "idle") or by
\* the restart command after its sleep (from "restart_sleep").
StartCheck(h) ==
    /\ IF AlreadyRunning
         THEN hd' = StartRefused(h)
         ELSE /\ SlotLeft
              /\ hd' = [hd EXCEPT ![h] = [pc |-> "start_set",
                                          restart |-> (hd[h].pc = "restart_sleep"),
                                          result |-> "none"]]
    /\ NoteStart
    /\ UNCHANGED <<unit, variant, is_running, stop_event, worker_thread, stats, sent,
                   history_file, wk, recorded, stopReq>>

Start_Command(h) ==
    /\ Dispatched(h)
    /\ ncmd > 0
    /\ ncmd' = ncmd - 1
    /\ StartCheck(h)

\* restart: "time.sleep(1)" / "time.sleep(2)" is over and start is called.
Restart_Start(h) ==
    /\ hd[h].pc = "restart_sleep"
    /\ UNCHANGED ncmd
    /\ StartCheck(h)

\* "self.is_running = True" / "is_running = True"
Start_Set(h) ==
    /\ hd[h].pc = "start_set"
    /\ is_running' = TRUE
    /\ hd' = Step(h, IF variant = "ctl" THEN "start_clear" ELSE "start_stats")
    /\ UNCHANGED <<unit, variant, ncmd, stop_event, worker_thread, stats, sent, history_file,
                   wk, recorded, stopReq, waitIssued, waitStopped, stopped>>

\* "self.stop_event.clear()"
Start_Clear(h) ==
    /\ variant = "ctl"
    /\ hd[h].pc = "start_clear"
    /\ stop_event' = FALSE
    /\ hd' = Step(h, "start_spawn")
    /\ UNCHANGED <<unit, variant, ncmd, is_running, worker_thread, stats, sent, history_file,
                   wk, recorded, stopReq, waitIssued, waitStopped, stopped>>

\* The thread a start creates: rss_loop at its entry (ctl), bot_worker at its
\* entry (file).
SpawnedWorker == [DeadWorker EXCEPT !.pc = IF variant = "ctl" THEN "top" ELSE "load"]

\* The threads after start has created and started its thread.
Spawn(threads) == [threads EXCEPT ![NewSlot] = SpawnedWorker]

\* "self.worker_thread = threading.Thread(...); self.worker_thread.start()"
\* "bot_thread = threading.Thread(target=bot_worker); ...; bot_thread.start()"
Start_Spawn(h) ==
    /\ hd[h].pc = "start_spawn"
    /\ FreeSlots # {}
    /\ worker_thread' = NewSlot
    /\ wk' = Spawn(wk)
    /\ hd' = IF variant = "ctl" THEN Step(h, "start_stats") ELSE Ret(h, "True")
    /\ UNCHANGED <<unit, variant, ncmd, is_running, stop_event, stats, sent, history_file,
                   recorded, stopReq, waitIssued, waitStopped, stopped>>

\* The fields start writes: start_time, last_check, posts_sent, errors (and,
\* in ctl, the enhancer and image counters, which this model does not carry).
\* last_post is not among them.
ResetStats(st) == [st EXCEPT !.start_time = TRUE, !.last_check = FALSE,
                             !.posts_sent = 0, !.errors = 0]

\* "stats['start_time'] = datetime.now(); ...; stats['errors'] = 0"
Start_Stats(h) ==
    /\ hd[h].pc = "start_stats"
    /\ stats' = ResetStats(stats)
    /\ hd' = IF variant = "ctl" THEN Ret(h, "True") ELSE Step(h, "start_spawn")
    /\ UNCHANGED <<unit, variant, ncmd, is_running, stop_event, worker_thread, sent,
                   history_file, wk, recorded, stopReq, waitIssued, waitStopped, stopped>>

\* The handler after stop's check found the bot stopped: the stop command
\* replies, the restart command ignores the result and sleeps.
StopRefused(h, restart) ==
    IF restart
      THEN [hd EXCEPT ![h] = [pc |-> "restart_sleep", restart |-> FALSE, result |-> "none"]]
      ELSE Ret(h, "False")

\* The check that opens stop (command stop, or the stop inside restart) or
\* pause: first is the position of the call's first write.
StopCheck(h, restart, first) ==
    /\ Dispatched(h)
    /\ ncmd > 0
    /\ ncmd' = ncmd - 1
    /\ IF AlreadyStopped
         THEN /\ hd' = StopRefused(h, restart)
              /\ UNCHANGED <<stopReq, waitIssued>>
         ELSE /\ hd' = [hd EXCEPT ![h] = [pc |-> first, restart |-> restart,
                                          result |-> "none"]]
              /\ stopReq' = TRUE
              /\ NoteIssued(h)
    /\ UNCHANGED <<unit, variant, is_running, stop_event, worker_thread, stats, sent,
                   history_file, wk, recorded, waitStopped, stopped>>

Stop_Command(h) == StopCheck(h, FALSE, "stop_set")

Restart_Command(h) == StopCheck(h, TRUE, "stop_set")

Pause_Command(h) == variant = "file" /\ StopCheck(h, FALSE, "pause_set")

\* The handler after stop has returned its success result.
StopReturn(h) ==
    IF hd[h].restart
      THEN [hd EXCEPT ![h] = [pc |-> "restart_sleep", restart |-> FALSE, result |-> "none"]]
      ELSE Ret(h, "True")

\* ctl: "self.is_running = False"
Stop_Set(h) ==
    /\ variant = "ctl"
    /\ hd[h].pc = "stop_set"
    /\ is_running' = FALSE
    /\ hd' = Step(h, "stop_evt")
    /\ UNCHANGED <<unit, variant, ncmd, stop_event, worker_thread, stats, sent, history_file,
                   wk, recorded, stopReq, waitIssued, waitStopped, stopped>>

\* ctl: the threads after Event.set() has notified the threads blocked in
\* "self.stop_event.wait(CHECK_INTERVAL)": their wait returns, whatever
\* happens to the event afterwards.
Woken(threads) == [w \in Workers |-> IF threads[w].pc = "wait"
                                       THEN [threads[w] EXCEPT !.left = 0]
                                       ELSE threads[w]]

\* ctl: "self.stop_event.set()"
Stop_Event(h) ==
    /\ variant = "ctl"
    /\ hd[h].pc = "stop_evt"
    /\ stop_event' = TRUE
    /\ wk' = Woken(wk)
    /\ hd' = Step(h, "stop_join")
    /\ NoteSignal(h)
    /\ UNCHANGED <<unit, variant, ncmd, is_running, worker_thread, stats, sent, history_file,
                   recorded, stopReq>>

\* ctl: "if self.worker_thread and self.worker_thread.is_alive()"
JoinNeeded == worker_thread # NoWorker /\ Alive(worker_thread)

\* ctl: there is no live thread to wait for, or join() returns because the
\* thread has ended.
Stop_JoinDone(h) ==
    /\ variant = "ctl"
    /\ hd[h].pc = "stop_join"
    /\ ~JoinNeeded
    /\ hd' = StopReturn(h)
    /\ NoteStopped
    /\ UNCHANGED <<unit, variant, ncmd, is_running, stop_event, worker_thread, stats, sent,
                   history_file, wk, recorded, stopReq, waitIssued, waitStopped>>

\* ctl: "self.worker_thread.join(timeout=5.0)" returns with the thread alive.
Stop_JoinTimeout(h) ==
    /\ variant = "ctl"
    /\ hd[h].pc = "stop_join"
    /\ JoinNeeded
    /\ hd' = StopReturn(h)
    /\ NoteStopped
    /\ UNCHANGED <<unit, variant, ncmd, is_running, stop_event, worker_thread, stats, sent,
                   history_file, wk, recorded, stopReq, waitIssued, waitStopped>>

\* file: "is_running = False" of stop_bot (then save_history) or of pause_bot
\* (then return).
F_Stop_Set(h) ==
    /\ variant = "file"
    /\ hd[h].pc \in {"stop_set", "pause_set"}
    /\ is_running' = FALSE
    /\ hd' = IF hd[h].pc = "pause_set" THEN Ret(h, "True") ELSE Step(h, "stop_save")
    /\ NoteSignal(h)
    /\ UNCHANGED <<unit, variant, ncmd, stop_event, worker_thread, stats, sent, history_file,
                   wk, recorded, stopReq>>

\* save_history: the file is rewritten with the ids of the set (ok = TRUE),
\* or the write raises, is logged, and False is returned (ok = FALSE).
SaveHistory(set, ok) == IF ok THEN set ELSE history_file

\* file: "save_history()" of stop_bot, whose result is ignored.
F_Stop_Save(h, ok) ==
    /\ variant = "file"
    /\ hd[h].pc = "stop_save"
    /\ history_file' = SaveHistory(sent, ok)
    /\ hd' = StopReturn(h)
    /\ NoteStopped
    /\ UNCHANGED <<unit, variant, ncmd, is_running, stop_event, worker_thread, stats, sent,
                   wk, recorded, stopReq, waitIssued, waitStopped>>

-----------------------------------------------------------------------------
(***************************************************************************)
(* The polling loop: BotController.rss_loop (ctl), bot_worker with         *)
(* get_news and send_news (file).  Positions of a worker thread:           *)
(*   "load"     file: load_history() before the loop                       *)
(*   "top"      the while condition                                        *)
(*   "url"      the head of the loop over RSS_URLS, url = index of the     *)
(*              next source (file: inside get_news, items = all_news)      *)
(*   "entry"    the head of the loop over the entries to publish, items =  *)
(*              the entries still to visit; reached first from the fetch   *)
(*              and then through the pacing sleep after each post          *)
(*   "send"     the formatting and send calls in flight for entry cur      *)
(*   "persist"  file: the history trim and save_history()                  *)
(*   "wait"     the inter-cycle wait, left = ticks of it remaining         *)
(*   "cooldown" the sleep of the outer exception handler                   *)
(***************************************************************************)
Move(w, r) == [wk EXCEPT ![w] = r]

\* A loop condition that never fails.
LoopCondition_Always == TRUE

\* ctl: "while self.is_running and not self.stop_event.is_set()"
\* file: "while is_running"
LoopCondition == IF variant = "ctl" THEN is_running /\ ~stop_event ELSE is_running

\* The stop check at the head of the inner loops:
\* ctl: "if self.stop_event.is_set(): break"; file: "if not is_running: break"
StopSeen == IF variant = "ctl" THEN stop_event ELSE ~is_running

\* ctl: the entries of one feed in the order the loop visits them,
\* "reversed(feed.entries[:10])"
VisitOrder(entries) == Reverse(Prefix(entries, InspectCap))

\* The link that is the empty string (NoLink: the entry has no link at all).
EmptyLink == ""

\* The dedup check against the set seen.
\* ctl: a missing link is skipped, an empty one is looked up like any other.
\* file: get_news turns a missing link into "", and "" is falsy.
SkippedIn(link, seen) ==
    IF variant = "ctl" THEN link = NoLink \/ link \in seen
                       ELSE link \in {NoLink, EmptyLink} \/ link \in seen

\* ctl: "if not hasattr(entry, 'link') or entry.link in sent_entries: continue"
\* file: "if item['link'] and item['link'] not in sent_news" (negated)
Skipped(link) == SkippedIn(link, sent)

\* The worker at the start of a cycle.
CycleStart == [DeadWorker EXCEPT !.pc = "url", !.url = 1]

\* The loop condition holds: a cycle begins and stats['last_check'] is written
\* (ctl: first statement of the cycle; file: first statement of get_news).
W_BeginCycle(w) ==
    /\ wk[w].pc = "top"
    /\ LoopCondition
    /\ stats' = [stats EXCEPT !.last_check = TRUE]
    /\ wk' = Move(w, CycleStart)
    /\ NoteLeft(w)
    /\ UNCHANGED <<unit, variant, ncmd, is_running, stop_event, worker_thread, sent,
                   history_file, hd, recorded, stopReq>>

\* A worker that clears the run flag when it leaves its loop.
W_Exit_ClearsFlag(w) ==
    /\ wk[w].pc = "top"
    /\ ~LoopCondition
    /\ is_running' = FALSE
    /\ wk' = Move(w, DeadWorker)
    /\ NoteExit(w)
    /\ UNCHANGED <<unit, variant, ncmd, stop_event, worker_thread, stats, sent,
                   history_file, hd, recorded, stopReq>>

\* The loop condition fails: the loop function returns and the thread ends.
W_Exit(w) ==
    /\ wk[w].pc = "top"
    /\ ~LoopCondition
    /\ wk' = Move(w, DeadWorker)
    /\ NoteExit(w)
    /\ UNCHANGED <<unit, variant, ncmd, is_running, stop_event, worker_thread, stats, sent,
                   history_file, hd, recorded, stopReq>>

\* A per-source handler that gives up the remaining sources of the cycle.
AfterFeedError_Aborts(r) == [r EXCEPT !.url = Len(RSS_URLS) + 1, !.cur = NoLink]

\* Where the worker stands after the per-source handler caught an exception:
\* at the next source.
AfterFeedError(r) == [r EXCEPT !.url = r.url + 1, !.cur = NoLink]

\* The worker in the inter-cycle wait.
Waiting == [DeadWorker EXCEPT !.pc = "wait", !.left = WaitTicks]

\* ctl: head of "for url in RSS_URLS".  The loop is exhausted or broken by the
\* stop event, or the next feed is fetched; outcome is what the feed source
\* does: it raises, returns no entries, or returns the feed.
W_Url(w, outcome) ==
    /\ variant = "ctl"
    /\ wk[w].pc = "url"
    /\ IF wk[w].url > Len(RSS_URLS) \/ StopSeen
         THEN /\ outcome = "ok"
              /\ wk' = Move(w, Waiting)
              /\ UNCHANGED stats
         ELSE CASE outcome = "raise" ->
                     /\ stats.errors < MaxErrors
                     /\ stats' = [stats EXCEPT !.errors = @ + 1]
                     /\ wk' = Move(w, AfterFeedError(wk[w]))
                [] outcome = "empty" ->
                     /\ wk' = Move(w, [wk[w] EXCEPT !.url = @ + 1])
                     /\ UNCHANGED stats
                [] outcome = "ok" ->
                     /\ wk' = Move(w, [wk[w] EXCEPT !.pc = "entry",
                                          !.items = VisitOrder(FeedEntries(RSS_URLS[wk[w].url]))])
                     /\ UNCHANGED stats
    /\ UNCHANGED <<unit, variant, ncmd, is_running, stop_event, worker_thread, sent,
                   history_file, hd, recorded, stopReq, waitIssued, waitStopped, stopped>>

\* file: head of "for url in RSS_URLS" in get_news.  The loop is exhausted and
\* get_news returns all_news, or the next feed is fetched and its entries are
\* appended in feed order.
F_Url(w, outcome) ==
    /\ variant = "file"
    /\ wk[w].pc = "url"
    /\ IF wk[w].url > Len(RSS_URLS)
         THEN /\ outcome = "ok"
              /\ wk' = Move(w, [wk[w] EXCEPT !.pc = "entry"])
              /\ UNCHANGED stats
         ELSE CASE outcome = "raise" ->
                     /\ stats.errors < MaxErrors
                     /\ stats' = [stats EXCEPT !.errors = @ + 1]
                     /\ wk' = Move(w, AfterFeedError(wk[w]))
                [] outcome = "empty" ->
                     /\ wk' = Move(w, [wk[w] EXCEPT !.url = @ + 1])
                     /\ UNCHANGED stats
                [] outcome = "ok" ->
                     /\ wk' = Move(w, [wk[w] EXCEPT !.url = @ + 1,
                                          !.items = @ \o FeedEntries(RSS_URLS[wk[w].url])])
                     /\ UNCHANGED stats
    /\ UNCHANGED <<unit, variant, ncmd, is_running, stop_event, worker_thread, sent,
                   history_file, hd, recorded, stopReq, waitIssued, waitStopped, stopped>>

\* Where the worker goes when the loop over the entries ends or is broken:
\* ctl: the next source; file: the end of the cycle.
AfterEntries(r) == IF variant = "ctl"
                     THEN [r EXCEPT !.pc = "url", !.url = @ + 1, !.items = <<>>]
                     ELSE [DeadWorker EXCEPT !.pc = "persist"]

\* Head of the loop over the entries: the stop check, the dedup check.
W_Entry(w) ==
    /\ wk[w].pc = "entry"
    /\ wk' = Move(w,
         IF wk[w].items = <<>> \/ StopSeen
           THEN AfterEntries(wk[w])
           ELSE IF Skipped(Head(wk[w].items))
                  THEN [wk[w] EXCEPT !.items = Tail(@)]
                  ELSE [wk[w] EXCEPT !.pc = "send", !.cur = Head(wk[w].items),
                                     !.items = Tail(@)])
    /\ UNCHANGED <<unit, variant, ncmd, is_running, stop_event, worker_thread, stats, sent,
                   history_file, hd, recorded, stopReq, waitIssued, waitStopped, stopped>>

\* A failed publish that gives up the remaining entries.
AfterSendError_Aborts(r) == [r EXCEPT !.pc = "entry", !.cur = NoLink, !.items = <<>>]

\* Where the worker stands after the publish of an entry failed (ctl: the
\* per-entry handler; file: send_news returned False): at the next entry.
AfterSendError(r) == [r EXCEPT !.pc = "entry", !.cur = NoLink]

\* The dedup set after entry link was published:
\* "sent_entries.add(entry.link)" / "sent_news.add(item['link'])"
Record(link, set) == set \cup {link}

\* The formatting and the send of entry cur end: the message was delivered, by
\* photo or by text (outcome "ok"), or the publish failed (outcome "fail").
W_Send(w, outcome) ==
    /\ wk[w].pc = "send"
    /\ CASE outcome = "ok" ->
              /\ stats.posts_sent < MaxPosts
              /\ sent' = Record(wk[w].cur, sent)
              /\ recorded' = recorded \cup (sent' \ sent)
              /\ stats' = [stats EXCEPT !.posts_sent = @ + 1,
                                        !.last_post = IF variant = "ctl" THEN TRUE ELSE @]
              /\ wk' = Move(w, [wk[w] EXCEPT !.pc = "entry", !.cur = NoLink])
         [] outcome = "fail" ->
              /\ stats.errors < MaxErrors
              /\ stats' = [stats EXCEPT !.errors = @ + 1]
              /\ wk' = Move(w, AfterSendError(wk[w]))
              /\ UNCHANGED <<sent, recorded>>
    /\ UNCHANGED <<unit, variant, ncmd, is_running, stop_event, worker_thread, history_file,
                   hd, stopReq, waitIssued, waitStopped, stopped>>

\* file: "-MAX_HISTORY//2" is (-MAX_HISTORY)//2, so the slice keeps the last
\* ceil(MAX_HISTORY / 2) elements of the list.
KeepCount == (MAX_HISTORY + 1) \div 2

\* file: "if len(sent_news) > MAX_HISTORY"
OverCap(set) == Cardinality(set) > MAX_HISTORY

\* file: what "set(list(sent_news)[-MAX_HISTORY//2:])" can be: the list of a
\* set of strings comes in an order that the process's string hashing fixes,
\* so any KeepCount of the ids can be the last ones.
Trimmed(set) == {keep \in SUBSET set : Cardinality(keep) = KeepCount}

\* file: the end of the cycle, "if len(sent_news) > MAX_HISTORY: sent_news =
\* ...; save_history()".
F_Persist(w, keep, ok) ==
    /\ variant = "file"
    /\ wk[w].pc = "persist"
    /\ IF OverCap(sent) THEN keep \in Trimmed(sent) ELSE keep = sent
    /\ sent' = keep
    /\ history_file' = SaveHistory(keep, ok)
    /\ wk' = Move(w, Waiting)
    /\ UNCHANGED <<unit, variant, ncmd, is_running, stop_event, worker_thread, stats,
                   hd, recorded, stopReq, waitIssued, waitStopped, stopped>>

\* load_history: "if os.path.exists(...): sent_news = set(f.read().splitlines())"
\* (ok = FALSE: the read raises and the set stays).
LoadHistory(set, ok) == IF ok /\ history_file # NoFile THEN history_file ELSE set

\* file: "load_history()" at the entry of bot_worker.
F_Load(w, ok) ==
    /\ variant = "file"
    /\ wk[w].pc = "load"
    /\ sent' = LoadHistory(sent, ok)
    /\ wk' = Move(w, [DeadWorker EXCEPT !.pc = "top"])
    /\ UNCHANGED <<unit, variant, ncmd, is_running, stop_event, worker_thread, stats,
                   history_file, hd, recorded, stopReq, waitIssued, waitStopped, stopped>>

\* Whether the inter-cycle wait ends now.
\* ctl: "self.stop_event.wait(CHECK_INTERVAL)" returns when the event is set
\* at the call, when set() wakes it (left = 0), or when the interval has run out.
\* file: "while wait_time > 0 and is_running: time.sleep(1); wait_time -= 1"
WaitOver(left) == StopSeen \/ left = 0

\* One tick of the interval passes with the worker in the wait.
W_WaitTick(w) ==
    /\ wk[w].pc = "wait"
    /\ ~WaitOver(wk[w].left)
    /\ wk' = Move(w, [wk[w] EXCEPT !.left = @ - 1])
    /\ UNCHANGED <<unit, variant, ncmd, is_running, stop_event, worker_thread, stats, sent,
                   history_file, hd, recorded, stopReq, waitIssued, waitStopped, stopped>>

\* The wait ends: back to the while condition.
W_WaitReturn(w) ==
    /\ wk[w].pc = "wait"
    /\ WaitOver(wk[w].left)
    /\ wk' = Move(w, [DeadWorker EXCEPT !.pc = "top"])
    /\ UNCHANGED <<unit, variant, ncmd, is_running, stop_event, worker_thread, stats, sent,
                   history_file, hd, recorded, stopReq, waitIssued, waitStopped, stopped>>

\* An exception of the cycle that is not caught and ends the thread.
AfterCycleError_Uncaught(r) == DeadWorker

\* Where the worker stands after the outer handler caught an exception: in
\* the cooldown sleep ("time.sleep(30)" / "time.sleep(60)").
AfterCycleError(r) == [DeadWorker EXCEPT !.pc = "cooldown"]

\* A statement of the cycle outside the per-source and per-entry handlers
\* raises: "except Exception: ...; stats['errors'] += 1; time.sleep(..)".
W_CycleError(w) ==
    /\ wk[w].pc = "url"
    /\ stats.errors < MaxErrors
    /\ stats' = [stats EXCEPT !.errors = @ + 1]
    /\ wk' = Move(w, AfterCycleError(wk[w]))
    /\ UNCHANGED <<unit, variant, ncmd, is_running, stop_event, worker_thread, sent,
                   history_file, hd, recorded, stopReq, waitIssued, waitStopped, stopped>>

\* A cooldown after which the thread ends.
AfterCooldown_Ends(r) == DeadWorker

\* Where the worker stands when the cooldown sleep has returned: at the while
\* condition.
AfterCooldown(r) == [DeadWorker EXCEPT !.pc = "top"]

\* The cooldown sleep returns: back to the while condition.
W_Cooldown(w) ==
    /\ wk[w].pc = "cooldown"
    /\ wk' = Move(w, AfterCooldown(wk[w]))
    /\ UNCHANGED <<unit, variant, ncmd, is_running, stop_event, worker_thread, stats, sent,
                   history_file, hd, recorded, stopReq, waitIssued, waitStopped, stopped>>

-----------------------------------------------------------------------------
(***************************************************************************)
(* The specifications.                                                     *)
(***************************************************************************)
InitCommon ==
    /\ is_running = FALSE
    /\ stop_event = FALSE
    /\ worker_thread = NoWorker
    /\ stats = StatsInit
    /\ sent = {}
    /\ history_file = NoFile
    /\ hd = [h \in Handlers |-> IdleHandler]
    /\ wk = [w \in Workers |-> DeadWorker]
    /\ recorded = {}
    /\ stopReq = FALSE
    /\ waitIssued = [h \in Handlers |-> {}]
    /\ waitStopped = {}
    /\ stopped = {}

\* The steps of a command-handler thread; faults: whether a save may fail.
HandlerStep(h, faults) ==
    \/ Start_Command(h) \/ Restart_Start(h) \/ Start_Set(h) \/ Start_Clear(h)
    \/ Start_Spawn(h) \/ Start_Stats(h)
    \/ Stop_Command(h) \/ Restart_Command(h) \/ Pause_Command(h)
    \/ Stop_Set(h) \/ Stop_Event(h) \/ Stop_JoinDone(h) \/ Stop_JoinTimeout(h)
    \/ F_Stop_Set(h)
    \/ (\E ok \in {TRUE, ~faults} : F_Stop_Save(h, ok))

\* The steps of a worker thread in which no call fails.
WorkerStep(w) ==
    \/ W_BeginCycle(w) \/ W_Exit(w)
    \/ W_Url(w, "ok") \/ F_Url(w, "ok")
    \/ W_Entry(w)
    \/ W_Send(w, "ok")
    \/ (\E keep \in SUBSET Links : F_Persist(w, keep, TRUE))
    \/ F_Load(w, TRUE)
    \/ W_WaitTick(w) \/ W_WaitReturn(w)

\* The steps of a worker thread in which a call fails.
WorkerFault(w) ==
    \/ (\E o \in {"empty", "raise"} : W_Url(w, o) \/ F_Url(w, o))
    \/ W_Send(w, "fail")
    \/ (\E keep \in SUBSET Links : F_Persist(w, keep, FALSE))
    \/ F_Load(w, FALSE)
    \/ W_CycleError(w) \/ W_Cooldown(w)

(***************************************************************************)
(* Spec: the concurrency of the controller.  Two handler threads take the  *)
(* operator's commands, every call of the worker succeeds.                 *)
(***************************************************************************)
Init == unit = NoCall /\ variant \in {"ctl", "file"} /\ ncmd = MaxCommands /\ InitCommon

Next == \/ \E h \in Handlers : HandlerStep(h, FALSE)
        \/ \E w \in Workers : WorkerStep(w)

Spec == Init /\ [][Next]_vars

\* The same with one more command from the operator.
InitLong == unit = NoCall /\ variant \in {"ctl", "file"} /\ ncmd = MaxCommands + 1 /\ InitCommon

SpecLong == InitLong /\ [][Next]_vars

(***************************************************************************)
(* SpecAuth: the messages of any sender.  Every handler begins with the    *)
(* comparison of the sender's id with the operator's.                      *)
(***************************************************************************)
\* ctl: OWNER_ID; file: ADMIN_ID.
OWNER_ID == "owner"

\* Who sends a message ("nobody": a message without from_user).
Senders == {OWNER_ID, "stranger", "nobody"}

\* A guard that lets every sender in.
Authorized_Anyone(sender) == TRUE

\* ctl: "if message.from_user is None or message.from_user.id != OWNER_ID: return"
\* file: "if str(message.from_user.id) != ADMIN_ID" (negated)
Authorized(sender) == sender = OWNER_ID

\* What a sender who is not the operator gets back.
\* ctl: every handler returns without a reply.
\* file: the command handlers return without a reply (without from_user the
\* handler raises at its first line); the handler of the button texts
\* replies that access is denied.
Denial(sender, via) ==
    IF variant = "file" /\ via = "button" /\ sender # "nobody" THEN "denied" ELSE "silent"

\* A handler thread takes a message of a sender: a command or the text of a
\* button, of kind start, stop, pause or restart.
Message(h, sender, kind, via) ==
    IF Authorized(sender)
      THEN \/ kind = "start" /\ Start_Command(h)
           \/ kind = "stop" /\ Stop_Command(h)
           \/ kind = "pause" /\ (Pause_Command(h) \/ (variant = "ctl" /\ Stop_Command(h)))
           \/ kind = "restart" /\ Restart_Command(h)
      ELSE /\ Dispatched(h)
           /\ ncmd > 0
           /\ ncmd' = ncmd - 1
           /\ hd' = Ret(h, Denial(sender, via))
           /\ UNCHANGED <<unit, variant, is_running, stop_event, worker_thread, stats, sent,
                          history_file, wk, recorded, stopReq, waitIssued, waitStopped,
                          stopped>>

\* The steps of a handler thread inside a call of start, stop or restart.
HandlerInside(h) ==
    \/ Restart_Start(h) \/ Start_Set(h) \/ Start_Clear(h)
    \/ Start_Spawn(h) \/ Start_Stats(h)
    \/ Stop_Set(h) \/ Stop_Event(h) \/ Stop_JoinDone(h) \/ Stop_JoinTimeout(h)
    \/ F_Stop_Set(h)
    \/ F_Stop_Save(h, TRUE)

InitAuth == unit = NoCall /\ variant \in {"ctl", "file"} /\ ncmd = MaxCommands /\ InitCommon

NextAuth == \/ \E h \in Handlers, sender \in Senders,
                  kind \in {"start", "stop", "pause", "restart"},
                  via \in {"command", "button"} : Message(h, sender, kind, via)
            \/ \E h \in Handlers : HandlerInside(h)
            \/ \E w \in Workers : WorkerStep(w)

SpecAuth == InitAuth /\ [][NextAuth]_vars

(***************************************************************************)
(* SpecLive: progress of the workers.  One handler thread takes the        *)
(* commands; every call and every sleep of a worker returns, so a worker   *)
(* that can take a step eventually takes one.                              *)
(***************************************************************************)
InitLive == unit = NoCall /\ variant \in {"ctl", "file"} /\ ncmd = MaxCommands /\ InitCommon

NextLive == \/ HandlerStep(1, FALSE)
            \/ \E w \in Workers : WorkerStep(w)

SpecLive == /\ InitLive /\ [][NextLive]_vars
            /\ \A w \in Workers : WF_vars(WorkerStep(w))

(***************************************************************************)
(* SpecFaults: the failures of the cycle.  One handler thread takes the    *)
(* commands one after the other; feeds, sends, loads and saves can fail.   *)
(***************************************************************************)
InitFaults == unit = NoCall /\ variant \in {"ctl", "file"} /\ ncmd = MaxCommands /\ InitCommon

NextFaults == \/ HandlerStep(1, TRUE)
              \/ \E w \in Workers : WorkerStep(w) \/ WorkerFault(w)

SpecFaults == InitFaults /\ [][NextFaults]_vars

-----------------------------------------------------------------------------
(***************************************************************************)
(* SpecUnits: the functions that one step of the loop applies, each applied *)
(* once to inputs drawn from bounded sets.  unit holds the application: its *)
(* function fn, its inputs, whether it was applied (done) and its result.   *)
(***************************************************************************)
MaxIds == 3            \* ids in an insertion history of the dedup set

mainVars == <<variant, is_running, stop_event, worker_thread, stats, sent,
              history_file, hd, wk, ncmd, recorded, stopReq, waitIssued,
              waitStopped, stopped>>

Range(s) == {s[i] : i \in DOMAIN s}

\* The insertion histories of a dedup set: ids in the order sent_news.add
\* received them, oldest first.
Orders == {o \in UNION {[1..n -> 1..MaxIds] : n \in 0..MaxIds} :
             \A i, j \in DOMAIN o : i # j => o[i] # o[j]}

TrimCalls == {[fn |-> "trim", order |-> o, done |-> FALSE, out |-> {}] : o \in Orders}

\* file: "if len(sent_news) > MAX_HISTORY: sent_news = set(list(sent_news)
\* [-MAX_HISTORY//2:])" applied to the set that the insertions built.
U_Trim ==
    /\ unit.fn = "trim" /\ ~unit.done
    /\ variant = "file"
    /\ \E keep \in SUBSET Range(unit.order) :
          /\ IF OverCap(Range(unit.order))
               THEN keep \in Trimmed(Range(unit.order))
               ELSE keep = Range(unit.order)
          /\ unit' = [unit EXCEPT !.done = TRUE, !.out = keep]
    /\ UNCHANGED mainVars

\* What the calls inside one publish do: the rendering of the message, the
\* availability check of the image URL (file), the photo send, the removal
\* of the image file (ctl), the text send.  image: the entry has an image
\* (ctl: format_message returned a path and the file exists; file: the feed
\* entry carries an image URL).
PublishInputs == [render : {"ok", "raise"}, image : BOOLEAN,
                  head : {"200", "other", "raise"}, photo : {"ok", "raise"},
                  remove : {"ok", "raise"}, text : {"ok", "raise"}]

\* The publish ended well: the send calls made, "posts_sent += 1", the id is
\* recorded; left: the image file still exists.
Delivered(photos, texts, left) ==
    [ok |-> TRUE, photos |-> photos, texts |-> texts, posts |-> 1, errors |-> 0,
     recorded |-> TRUE, file_left |-> left]

\* The publish failed: "stats['errors'] += 1", the id is not recorded.
Failed(photos, texts, left) ==
    [ok |-> FALSE, photos |-> photos, texts |-> texts, posts |-> 0, errors |-> 1,
     recorded |-> FALSE, file_left |-> left]

\* "bot.send_message(chat_id=CHANNEL_ID, text=message, ...)" and what follows.
TextSend(in, photos, left) ==
    IF in.text = "ok" THEN Delivered(photos, 1, left) ELSE Failed(photos, 1, left)

\* A handler of the photo branch that gives up instead of falling back.
AfterPhotoError_GivesUp(in, photos, left) == Failed(photos, 0, left)

\* The handler of the photo branch caught an exception: the text send.
\* ctl: "except Exception as e: ...; bot.send_message(...)"
\* file: "except Exception as img_error: ..." and the send_message below it.
AfterPhotoError(in, photos, left) == TextSend(in, photos, left)

\* ctl: the body of the per-entry try of rss_loop.
PublishCtl(in) ==
    IF in.render = "raise" THEN Failed(0, 0, FALSE)
    ELSE IF ~in.image THEN TextSend(in, 0, FALSE)
    ELSE IF in.photo = "raise" THEN AfterPhotoError(in, 1, TRUE)
    ELSE IF in.remove = "raise" THEN AfterPhotoError(in, 1, TRUE)
    ELSE Delivered(1, 0, FALSE)

\* file: send_news, and "sent_news.add" when it returned True.
PublishFile(in) ==
    IF in.render = "raise" THEN Failed(0, 0, FALSE)
    ELSE IF ~in.image \/ in.head = "other" THEN TextSend(in, 0, FALSE)
    ELSE IF in.head = "raise" THEN AfterPhotoError(in, 0, FALSE)
    ELSE IF in.photo = "raise" THEN AfterPhotoError(in, 1, FALSE)
    ELSE Delivered(1, 0, FALSE)

Publish(in) == IF variant = "ctl" THEN PublishCtl(in) ELSE PublishFile(in)

PublishCalls == {[fn |-> "publish", in |-> i, done |-> FALSE, out |-> Failed(0, 0, FALSE)] :
                    i \in PublishInputs}

\* One publish: the step W_Send of the loop, with the calls inside it.
U_Publish ==
    /\ unit.fn = "publish" /\ ~unit.done
    /\ unit' = [unit EXCEPT !.done = TRUE, !.out = Publish(unit.in)]
    /\ UNCHANGED mainVars

\* ctl: the thresholds of format_message.
TitleMin == 10
TitleMax == 120
BodyMin == 30
BodyMax == 600
DescriptionLimit == 500

\* Texts are known by where they come from and how long they are.
Text(src, len) == [src |-> src, len |-> len]

NoDict == [none |-> TRUE]

\* Lengths of rewritten titles and bodies: around the thresholds.
TitleLens == {0, TitleMin, TitleMin + 1, TitleMax - 1, TitleMax}
BodyLens == {0, BodyMin, BodyMin + 1, DescriptionLimit + 1, BodyMax - 1, BodyMax}

\* What one format_message meets: enabled: the enhancer is configured;
\* reply: how the request to the enhancer ends ("network": the post raises;
\* "other": the reply has not the expected fields; "nojson": no braces in the
\* text; "badjson": the text between the braces does not parse; "ok": it
\* parses); has_title, has_description: the keys the parsed object has;
\* typed: their values are strings (if not, numbers, whose len() raises
\* inside the try of format_message); tlen, dlen: their lengths; otlen, odlen:
\* the lengths of the entry's own title and description.
FormatInputs == [enabled : BOOLEAN,
                 reply : {"network", "other", "nojson", "badjson", "ok"},
                 has_title : BOOLEAN, has_description : BOOLEAN, typed : BOOLEAN,
                 tlen : TitleLens, dlen : BodyLens,
                 otlen : {TitleMin - 1, TitleMax - 1}, odlen : {BodyMin - 1, DescriptionLimit + 1}]

original_title(in) == Text("orig", in.otlen)
original_description(in) == Text("orig", in.odlen)

\* enhance_with_yagpt: the dict it returns (or None) and what it adds to
\* stats['yagpt_errors'].
enhance_with_yagpt(in) ==
    CASE ~in.enabled -> [res |-> NoDict, errors |-> 0]
      [] in.reply \in {"network", "other"} -> [res |-> NoDict, errors |-> 1]
      [] in.reply \in {"nojson", "badjson"} -> [res |-> NoDict, errors |-> 0]
      [] OTHER ->
           [res |-> [title |-> IF in.has_title THEN Text("new", in.tlen)
                                ELSE original_title(in),
                     description |-> IF in.has_description THEN Text("new", in.dlen)
                                      ELSE original_description(in)],
            errors |-> 0]

\* A validation whose bounds are inclusive.
Validated_Inclusive(new_title, new_description) ==
    /\ new_title.len >= TitleMin /\ new_description.len >= BodyMin
    /\ new_title.len <= TitleMax /\ new_description.len <= BodyMax

\* "new_title and len(new_title) > 10 and new_description and
\* len(new_description) > 30 and len(new_title) < 120 and
\* len(new_description) < 600"
Validated(new_title, new_description) ==
    /\ new_title.len # 0 /\ new_title.len > TitleMin
    /\ new_description.len # 0 /\ new_description.len > BodyMin
    /\ new_title.len < TitleMax /\ new_description.len < BodyMax

\* "if len(description) > 500: description = description[:500] + '...'"
Shortened(description) ==
    IF description.len > DescriptionLimit
      THEN [description EXCEPT !.len = DescriptionLimit + 3]
      ELSE description

\* format_message up to the shortening: the title and description of the
\* message, what it adds to yagpt_used and to yagpt_errors.
format_message(in) ==
    LET enhanced == enhance_with_yagpt(in)
        originals == [title |-> original_title(in),
                      description |-> Shortened(original_description(in))]
    IN  IF enhanced.res = NoDict
          THEN originals @@ [used |-> 0, errors |-> enhanced.errors]
        ELSE IF /\ ~in.typed
                /\ \/ in.has_title
                   \/ in.has_description /\ in.otlen > TitleMin
          THEN originals @@ [used |-> 0, errors |-> 1]
        ELSE IF Validated(enhanced.res.title, enhanced.res.description)
          THEN [title |-> enhanced.res.title,
                description |-> Shortened(enhanced.res.description),
                used |-> 1, errors |-> 0]
        ELSE originals @@ [used |-> 0, errors |-> 0]

FormatCalls == {[fn |-> "format", in |-> i, done |-> FALSE,
                 out |-> [title |-> Text("none", 0), description |-> Text("none", 0),
                          used |-> 0, errors |-> 0]] : i \in FormatInputs}

\* ctl: one format_message.
U_Format ==
    /\ unit.fn = "format" /\ ~unit.done
    /\ variant = "ctl"
    /\ unit' = [unit EXCEPT !.done = TRUE, !.out = format_message(unit.in)]
    /\ UNCHANGED mainVars

MaxFeed == 11          \* entries in the listing of one feed

\* file: "if (datetime.datetime.now() - entry_time).days > 1"
HorizonDays == 1

\* n times x.
Repeat(x, n) == [i \in 1..n |-> x]

\* The listings of one feed, newest entry first: the ages of its entries in
\* hours (0: just published; 24: one day; 25: a day and an hour; 48: two days).
Listings ==
    {Repeat(0, c[1]) \o Repeat(24, c[2]) \o Repeat(25, c[3]) \o Repeat(48, c[4]) :
        c \in {k \in [1..4 -> 0..MaxFeed] : k[1] + k[2] + k[3] + k[4] <= MaxFeed}}

\* feed.entries: every entry dated and linked, known by its position in the
\* listing and its age.
Entries(ages) == [i \in DOMAIN ages |-> [pos |-> i, age |-> ages[i]]]

\* file: the entry passes the time filter of get_news; ".days" of a positive
\* timedelta is its number of whole days.
Fresh(entry) == ~((entry.age \div 24) > HorizonDays)

\* file: what get_news appends to all_news for one feed, in order.
get_news(entries) == SelectSeq(entries, Fresh)

\* The entries of one feed that one cycle publishes, in order, when none is in
\* the dedup set, every send succeeds and no stop comes.
\* ctl: "for entry in reversed(feed.entries[:10])"
\* file: "for item in news" over what get_news collected.
PublishedInCycle(entries) ==
    IF variant = "ctl" THEN VisitOrder(entries) ELSE get_news(entries)

CollectCalls == {[fn |-> "collect", in |-> l, done |-> FALSE, out |-> <<>>] : l \in Listings}

\* One feed through one cycle.
U_Collect ==
    /\ unit.fn = "collect" /\ ~unit.done
    /\ unit' = [unit EXCEPT !.done = TRUE, !.out = PublishedInCycle(Entries(unit.in))]
    /\ UNCHANGED mainVars

\* What one entry meets at the head of the loop over the entries: its link,
\* the dedup set, and how its publish ends if it is made.
EntryInputs == [link : {NoLink, EmptyLink, "a"}, seen : SUBSET {EmptyLink, "a"},
                send : {"ok", "fail"}]

\* One entry through the body of the loop: the dedup check (W_Entry), the
\* publish and the recording of the link (W_Send).
ProcessEntry(in) ==
    IF SkippedIn(in.link, in.seen)
      THEN [published |-> FALSE, seen |-> in.seen, errors |-> 0]
    ELSE IF in.send = "ok"
      THEN [published |-> TRUE, seen |-> in.seen \cup {in.link}, errors |-> 0]
    ELSE [published |-> FALSE, seen |-> in.seen, errors |-> 1]

EntryCalls == {[fn |-> "entry", in |-> i, done |-> FALSE,
                out |-> [published |-> FALSE, seen |-> {}, errors |-> 0]] : i \in EntryInputs}

U_Entry ==
    /\ unit.fn = "entry" /\ ~unit.done
    /\ unit' = [unit EXCEPT !.done = TRUE, !.out = ProcessEntry(unit.in)]
    /\ UNCHANGED mainVars

\* ctl: enhance_with_yagpt, "MAX_INPUT_LENGTH = 3000"
MAX_INPUT_LENGTH == 3000

\* Lengths of the description of an entry handed to the enhancer.
InputLens == {0, MAX_INPUT_LENGTH - 1, MAX_INPUT_LENGTH, MAX_INPUT_LENGTH + 1,
              2 * MAX_INPUT_LENGTH}

\* The length of the description put into the prompt:
\* "if len(description) > MAX_INPUT_LENGTH:
\*      description = description[:MAX_INPUT_LENGTH] + '...'"
SubmittedLength(len) ==
    IF len > MAX_INPUT_LENGTH THEN MAX_INPUT_LENGTH + Len("...") ELSE len

SubmitCalls == {[fn |-> "submit", in |-> n, done |-> FALSE, out |-> 0] : n \in InputLens}

\* ctl: enhance_with_yagpt builds its prompt.
U_Submit ==
    /\ unit.fn = "submit" /\ ~unit.done
    /\ variant = "ctl"
    /\ unit' = [unit EXCEPT !.done = TRUE, !.out = SubmittedLength(unit.in)]
    /\ UNCHANGED mainVars

PollCycles == 3        \* cycles over one feed: one before it grows, the rest after

\* A feed over consecutive cycles: old entries at the first poll, gained more
\* before the second; it then stays as it is.
PollInputs == [old : 0..MaxFeed, gained : 0..MaxFeed]

\* The listing of a feed with n entries, newest first; the entries are
\* numbered in the order of their arrival.
ListingOf(n) == [i \in 1..n |-> n + 1 - i]

\* feed.entries at the given cycle.
PolledListing(in, cycle) ==
    IF cycle = 1 THEN ListingOf(in.old) ELSE ListingOf(in.old + in.gained)

PollCalls == {[fn |-> "poll", in |-> i, cycle |-> 0, done |-> FALSE, out |-> {}] :
                 i \in PollInputs}

\* ctl: one more cycle over the feed, every send succeeding: the entries
\* visited are published, those in the dedup set already are skipped.
U_Poll ==
    /\ unit.fn = "poll" /\ unit.cycle < PollCycles
    /\ variant = "ctl"
    /\ unit' = [unit EXCEPT
                   !.cycle = @ + 1,
                   !.out = @ \cup Range(VisitOrder(PolledListing(unit.in, unit.cycle + 1))),
                   !.done = (unit.cycle + 1 = PollCycles)]
    /\ UNCHANGED mainVars

\* The applications a variant of the program can make.
UnitCalls == (IF variant = "file" THEN TrimCalls
                ELSE FormatCalls \cup SubmitCalls \cup PollCalls)
                \cup PublishCalls \cup CollectCalls \cup EntryCalls

InitUnits == /\ variant \in {"ctl", "file"}
             /\ unit \in UnitCalls
             /\ ncmd = 0
             /\ InitCommon

NextUnits == \/ U_Trim
             \/ U_Publish
             \/ U_Format
             \/ U_Collect
             \/ U_Entry
             \/ U_Submit
             \/ U_Poll

SpecUnits == InitUnits /\ [][NextUnits]_vars

-----------------------------------------------------------------------------
(***************************************************************************)
(* The properties.                                                         *)
(***************************************************************************)
\* The step in which worker w makes the publish call for entry wk[w].cur (the
\* call then succeeds or fails).
Publishes(w) == wk[w].pc = "send" /\ wk'[w].pc # "send"

\* C1: once an id has been recorded in the dedup set after a successful
\* publish, no worker ever makes the publish call for an entry with that id
\* again, across cycles and across start / stop / restart.
C1_NeverPublishedAgain ==
    [][\A w \in Workers : Publishes(w) => wk[w].cur \notin recorded]_vars

\* C2: in every reachable state at most one worker thread is alive in the
\* polling loop, whatever the interleaving of start, stop and restart.
C2_AtMostOneWorker == Cardinality(AliveWorkers) <= 1

\* C3: after a stop has returned its success result, and while no start has
\* been invoked or has set the run flag again, a worker that was alive at
\* that return makes no publish call and changes neither the dedup set nor
\* the stats.
C3_StoppedWorkerIsQuiet ==
    [][\A w \in stopped :
          (~is_running /\ wk'[w] # wk[w])
             => (~Publishes(w) /\ sent' = sent /\ stats' = stats)]_vars

\* C4: a worker that is in the inter-cycle wait from the moment a stop is
\* issued until that stop becomes visible spends no further tick in the wait
\* and, as long as no start is invoked after the stop was issued, begins no
\* other cycle.
C4_StopEndsTheWait ==
    [][\A w \in waitStopped :
          /\ ~(wk[w].pc = "wait" /\ wk'[w].pc = "wait" /\ wk'[w].left < wk[w].left)
          /\ ~(wk[w].pc = "top" /\ wk'[w].pc = "url")]_vars

\* The step in which worker w ends.
Terminates(w) == Alive(w) /\ wk'[w].pc = "dead"

\* C5: a worker ends only by finding its while condition false, and only
\* after a stop (or pause) was requested: no step in which a feed, a publish,
\* a save, a load or a statement of the cycle fails ends it.
C5_ExitsOnlyOnStop ==
    [][\A w \in Workers :
          Terminates(w) => (stopReq /\ wk[w].pc = "top" /\ ~LoopCondition)]_vars

\* C5 witness: a worker was started, counted an error while the bot was
\* running, and ended after the stop.
C5_Witness ==
    /\ stopReq
    /\ worker_thread # NoWorker
    /\ AliveWorkers = {}
    /\ stats.errors = 1
    /\ ncmd = 0

\* The step in which start is invoked on handler h: by the start command or
\* by the restart command after its sleep.
StartInvoked(h) == Start_Command(h) \/ Restart_Start(h)

\* C6: start invoked while the bot is running returns the already-running
\* signal and changes nothing: the run flag, the stop event, the worker
\* thread, the workers, the dedup set and every field of the stats.
C6_StartWhileRunningIsNoOp ==
    [][\A h \in Handlers :
          (StartInvoked(h) /\ is_running)
             => /\ hd'[h].pc = "idle" /\ hd'[h].result = "False"
                /\ UNCHANGED <<is_running, stop_event, worker_thread, stats, wk,
                               sent, history_file>>]_vars

\* C6 witness: the second of two starts returned the already-running signal
\* and the post counted before it is still counted.
C6_Witness ==
    /\ is_running
    /\ hd[1].pc = "idle" /\ hd[1].result = "False"
    /\ ncmd = 0
    /\ stats.posts_sent = 1 /\ stats.start_time
    /\ Cardinality(AliveWorkers) = 1

\* The step in which restart returns to its caller on handler h: its start
\* returns, after the thread and the stats (True) or refused (False).
RestartReturns(h) ==
    /\ hd'[h].pc = "idle"
    /\ \/ hd[h].restart /\ hd[h].pc \in {"start_spawn", "start_stats"}
       \/ hd[h].pc = "restart_sleep"

\* C7: when restart returns the bot is running, exactly one worker is alive,
\* and posts_sent and errors are zero.
C7_RestartIsStopThenStart ==
    [][\A h \in Handlers :
          RestartReturns(h)
             => /\ is_running'
                /\ Cardinality({w \in Workers : wk'[w].pc # "dead"}) = 1
                /\ stats'.posts_sent = 0 /\ stats'.errors = 0]_vars

\* The step in which the fetch or the processing of a source raises in
\* worker w.
FeedRaises(w) == W_Url(w, "raise") \/ F_Url(w, "raise")

\* C8: an exception raised for one source adds exactly one to the error
\* counter and leaves the worker in the same cycle at the head of the loop
\* over the sources, at the next source, with what it had collected.
C8_FeedErrorIsContained ==
    [][\A w \in Workers :
          FeedRaises(w)
             => /\ stats'.errors = stats.errors + 1
                /\ stats'.posts_sent = stats.posts_sent
                /\ wk'[w].pc = "url"
                /\ wk'[w].url = wk[w].url + 1
                /\ wk'[w].items = wk[w].items
                /\ sent' = sent]_vars

\* C8 witness: the first source raised and the second one has been fetched in
\* the same cycle.
C8_Witness ==
    \E w \in Workers :
       /\ stats.errors = 1 /\ stats.posts_sent = 0 /\ sent = {}
       /\ \/ variant = "ctl" /\ wk[w].pc = "entry" /\ wk[w].url = 2 /\ wk[w].items = <<"a">>
          \/ variant = "file" /\ wk[w].pc = "entry" /\ wk[w].items = <<"a">>

\* The step in which the publish of entry wk[w].cur fails in worker w.
PublishFails(w) == W_Send(w, "fail")

\* Every id in the dedup set (and in the history file) was recorded at a
\* successful publish of it.
OnlyPublishedIds ==
    /\ sent \subseteq recorded
    /\ history_file # NoFile => history_file \subseteq recorded

\* C9: an id is in the dedup set only after a successful publish of it; a
\* failed publish does not record the id, adds exactly one to the error
\* counter and leaves the worker at the head of the loop over the entries
\* with the remaining entries, so that the id is still absent from the set
\* when the entry is visited again.
C9_FailedPublishIsRetried ==
    [][/\ OnlyPublishedIds'
       /\ \A w \in Workers :
             PublishFails(w)
                => /\ sent' = sent /\ recorded' = recorded
                   /\ stats'.errors = stats.errors + 1
                   /\ stats'.posts_sent = stats.posts_sent
                   /\ wk'[w].pc = "entry"
                   /\ wk'[w].items = wk[w].items]_vars

\* C9 witness: the publish of an entry failed, a later entry was published,
\* and the failed entry, still absent from the set, is being published again
\* in a later cycle.
C9_Witness ==
    \E w \in Workers :
       /\ wk[w].pc = "send" /\ wk[w].cur \notin sent
       /\ stats.errors = 1 /\ stats.posts_sent = 1
       /\ \/ variant = "ctl" /\ wk[w].cur = "a" /\ wk[w].url = 1 /\ sent = {"b"}
          \/ variant = "file" /\ wk[w].cur = "b" /\ sent = {"a"}

\* C10: in every reachable state the dedup set holds at most MAX_HISTORY ids,
\* the middle of a cycle included.
C10_HistoryWithinCap == Cardinality(sent) <= MAX_HISTORY

\* The last n ids of an insertion history: the n most recently inserted.
MostRecent(order, n) == {order[i] : i \in {k \in DOMAIN order : k > Len(order) - n}}

\* C11: when the dedup set exceeds MAX_HISTORY and the trim runs, the ids that
\* remain are exactly the ceil(MAX_HISTORY / 2) most recently inserted ones.
C11_TrimKeepsMostRecent ==
    (unit.fn = "trim" /\ unit.done /\ OverCap(Range(unit.order)))
       => unit.out = MostRecent(unit.order, KeepCount)

\* The photo send of a publish was made and failed.
PhotoSendFailed(in) ==
    /\ in.render = "ok" /\ in.image /\ in.photo = "raise"
    /\ variant = "file" => in.head = "200"

\* C12: when the entry has an image and the photo send fails, the text send is
\* made exactly once in the same publish; if it succeeds the publish is a
\* success: one post counted, the id recorded, no error counted.
C12_PhotoFallbackToText ==
    (unit.fn = "publish" /\ unit.done /\ PhotoSendFailed(unit.in))
       => /\ unit.out.texts = 1
          /\ unit.in.text = "ok"
                => /\ unit.out.ok /\ unit.out.recorded
                   /\ unit.out.posts = 1 /\ unit.out.errors = 0

\* C12 witness: a publish whose photo send failed and whose text send
\* succeeded has ended.
C12_Witness ==
    /\ unit.fn = "publish" /\ unit.done
    /\ PhotoSendFailed(unit.in) /\ unit.in.text = "ok"
    /\ unit.out.ok /\ unit.out.photos = 1 /\ unit.out.texts = 1

\* C13: once the processing of an entry has ended, on whatever path, the
\* image file generated for it no longer exists.
C13_ImageFileDisposed ==
    (unit.fn = "publish" /\ unit.done) => ~unit.out.file_left

\* A worker ends a cycle: it enters the inter-cycle wait.
CycleCompleted(w) == wk[w].pc # "wait" /\ wk'[w].pc = "wait"

\* A stop returns to its caller.
StopCompleted(h) ==
    \/ Stop_JoinDone(h) \/ Stop_JoinTimeout(h)
    \/ \E ok \in BOOLEAN : F_Stop_Save(h, ok)

\* The ids in the persisted snapshot (none when there is no file).
SnapshotIds == IF history_file = NoFile THEN {} ELSE history_file

\* C14: at the end of every completed cycle and when a stop has completed,
\* the persisted snapshot holds exactly the ids of the in-memory dedup set.
C14_SnapshotMatchesMemory ==
    [][((\E w \in Workers : CycleCompleted(w)) \/ (\E h \in Handlers : StopCompleted(h)))
          => SnapshotIds' = sent']_vars

\* The step in which save_history fails at the end of worker w's cycle: the
\* snapshot is not what the memory holds.
PersistFails(w) ==
    /\ \E keep \in SUBSET Links : F_Persist(w, keep, FALSE)
    /\ history_file' # sent'

\* The step in which save_history fails in the stop taken by handler h.
StopSaveFails(h) == F_Stop_Save(h, FALSE) /\ history_file' # sent'

\* C15: a failed write of the snapshot adds one to the error counter and the
\* worker goes on to the inter-cycle wait.
C15_SaveFailureIsCounted ==
    [][/\ \A w \in Workers :
            PersistFails(w) => /\ stats'.errors = stats.errors + 1
                               /\ wk'[w] = Waiting
       /\ \A h \in Handlers :
            StopSaveFails(h) => stats'.errors = stats.errors + 1]_vars

\* The enhancer returned a title and a body to format_message.
Rewritten(in) == in.enabled /\ in.reply = "ok" /\ in.typed

\* C16: the rewritten title and body replace the originals exactly when
\* 10 < len(title) < 120 and 30 < len(body) < 600; otherwise the original
\* title and the original body are both used.
C16_RewriteAcceptedInRange ==
    (unit.fn = "format" /\ unit.done /\ Rewritten(unit.in))
       => LET new == enhance_with_yagpt(unit.in).res
              inRange == /\ TitleMin < new.title.len /\ new.title.len < TitleMax
                         /\ BodyMin < new.description.len /\ new.description.len < BodyMax
          IN  IF inRange
                THEN /\ unit.out.title = new.title
                     /\ unit.out.description = Shortened(new.description)
                     /\ unit.out.used = 1
                ELSE /\ unit.out.title = original_title(unit.in)
                     /\ unit.out.description = Shortened(original_description(unit.in))
                     /\ unit.out.used = 0

\* C16 witness: a rewritten title of exactly 10 characters, with a body in
\* range, was rejected and both originals are used.
C16_Witness ==
    /\ unit.fn = "format" /\ unit.done /\ Rewritten(unit.in)
    /\ unit.in.has_title /\ unit.in.has_description
    /\ unit.in.tlen = TitleMin /\ unit.in.dlen = BodyMin + 1
    /\ unit.out.title.src = "orig" /\ unit.out.description.src = "orig"

\* A failure of the enhancer: a network error or a malformed reply.
EnhancerFailed(in) == in.enabled /\ in.reply \in {"network", "nojson", "badjson"}

\* C17: every failure of the enhancer leaves the original text in the message
\* and adds exactly one to the enhancement error counter.
C17_EnhancerFailureIsCounted ==
    (unit.fn = "format" /\ unit.done /\ EnhancerFailed(unit.in))
       => /\ unit.out.title = original_title(unit.in)
          /\ unit.out.description = Shortened(original_description(unit.in))
          /\ unit.out.errors = 1

\* C18: no entry published in a cycle is older than the freshness horizon of
\* one day.
C18_StaleEntriesDropped ==
    (unit.fn = "collect" /\ unit.done)
       => \A i \in DOMAIN unit.out : unit.out[i].age <= 24 * HorizonDays

\* C19: at most 10 entries of one feed are published in one cycle, however
\* many the feed lists.
C19_AtMostTenPerFeed ==
    (unit.fn = "collect" /\ unit.done) => Len(unit.out) <= InspectCap

\* C20: the entries of one feed are published oldest first: of two published
\* entries, the one further down the newest-first listing comes first.
C20_OldestFirst ==
    (unit.fn = "collect" /\ unit.done)
       => \A a, b \in DOMAIN unit.out : a < b => unit.out[a].pos > unit.out[b].pos

\* C21: an entry whose link is missing or empty is not published, is not
\* added to the dedup set and adds nothing to the error counter.
C21_EmptyIdDiscarded ==
    (unit.fn = "entry" /\ unit.done /\ unit.in.link \in {NoLink, EmptyLink})
       => /\ ~unit.out.published
          /\ unit.out.seen = unit.in.seen
          /\ unit.out.errors = 0

\* The step in which a start (of the start command or of restart) returns
\* True on handler h.
StartSucceeds(h) ==
    /\ hd[h].pc \in {"start_spawn", "start_stats"}
    /\ hd'[h].pc = "idle" /\ hd'[h].result = "True"

\* C22: when a start succeeds every field of the stats has its initial value,
\* but for the start time, which is set: nothing of the previous run remains.
C22_StartResetsAllStats ==
    [][\A h \in Handlers :
          StartSucceeds(h) => stats' = [StatsInit EXCEPT !.start_time = TRUE]]_vars

\* The step in which handler h takes a message of a sender who is not the
\* operator.
UnauthorizedMessage(h) ==
    /\ hd[h].pc = "idle" /\ ncmd' = ncmd - 1
    /\ \E sender \in Senders \ {OWNER_ID}, kind \in {"start", "stop", "pause", "restart"},
          via \in {"command", "button"} : Message(h, sender, kind, via)

\* C23: a message of a sender who is not the operator leaves the run flag,
\* the stop event, the worker thread, the workers, the stats, the dedup set
\* and the history file as they are, and is answered by silence or by a
\* denial; so the controller state of a run does not depend on such messages.
C23_UnauthorizedChangesNothing ==
    [][\A h \in Handlers :
          UnauthorizedMessage(h)
             => /\ UNCHANGED <<is_running, stop_event, worker_thread, wk, stats, sent,
                               history_file>>
                /\ hd'[h].pc = "idle" /\ hd'[h].result \in {"silent", "denied"}
                /\ \A g \in Handlers \ {h} : hd'[g] = hd[g]]_vars

\* C23 witness: a stranger's message was denied while the bot was running,
\* and the bot is running still.
C23_Witness ==
    /\ is_running /\ AliveWorkers # {}
    /\ \E h \in Handlers : hd[h].pc = "idle" /\ hd[h].result \in {"silent", "denied"}

\* The messages of one publish that reached the channel: its photo send and
\* its text send, where made and not failed.
MessagesDelivered(in, out) ==
    (IF out.photos = 1 /\ in.photo = "ok" THEN 1 ELSE 0)
       + (IF out.texts = 1 /\ in.text = "ok" THEN 1 ELSE 0)

\* C24: a publish adds one to posts_sent exactly when the entry was delivered
\* to the channel, and one to the error counter exactly when it was not; a
\* publish that succeeds through the text send counts no error.
C24_CountersMatchDeliveries ==
    (unit.fn = "publish" /\ unit.done)
       => LET delivered == MessagesDelivered(unit.in, unit.out) > 0
          IN  /\ unit.out.posts = (IF delivered THEN 1 ELSE 0)
              /\ unit.out.errors = (IF delivered THEN 0 ELSE 1)

\* C25: the description submitted to the enhancer is never longer than
\* MAX_INPUT_LENGTH characters.
C25_SubmittedBodyBounded ==
    (unit.fn = "submit" /\ unit.done) => unit.out <= MAX_INPUT_LENGTH

\* The step in which worker w begins a cycle.
BeginsCycle(w) == wk[w].pc = "top" /\ wk'[w].pc = "url"

\* The step in which worker w fetches a source.
Fetches(w) ==
    /\ wk[w].pc = "url" /\ wk[w].url <= Len(RSS_URLS)
    /\ wk'[w].pc \in {"url", "entry"} /\ wk'[w] # wk[w]

\* The step in which worker w takes up an entry to publish it.
TakesUpEntry(w) == wk[w].pc = "entry" /\ wk'[w].pc = "send"

\* C26: while the stop flag is up, a worker begins no cycle, fetches no
\* source and takes up no entry: only the publish in flight when the flag was
\* set is still made.
C26_StopIsSeenBetweenEntries ==
    [][StopSeen => \A w \in Workers :
                      ~BeginsCycle(w) /\ ~Fetches(w) /\ ~TakesUpEntry(w)]_vars

\* C27: an exception that escapes to the outer handler adds exactly one to
\* the error counter and puts the worker into the cooldown sleep; when the
\* sleep returns the worker is at the loop condition, and from there it begins
\* another cycle if the condition holds.
C27_CycleErrorIsCaught ==
    [][\A w \in Workers :
          /\ (wk[w].pc = "url" /\ wk'[w].pc = "cooldown")
                => /\ stats'.errors = stats.errors + 1
                   /\ stats'.posts_sent = stats.posts_sent
                   /\ sent' = sent
          /\ (wk[w].pc = "cooldown" /\ wk'[w] # wk[w])
                => wk'[w].pc = "top" /\ stats' = stats
          /\ (wk[w].pc = "top" /\ wk'[w] # wk[w] /\ LoopCondition)
                => wk'[w].pc = "url"]_vars

\* C27 witness: the outer handler has caught an exception and counted it, the
\* worker is in the cooldown sleep and the bot is running.
C27_Witness ==
    \E w \in Workers : wk[w].pc = "cooldown" /\ stats.errors = 1 /\ is_running

\* C28: is_running is written only by the step of a handler inside start,
\* stop or pause that assigns it, the stop event only by the handler's clear()
\* and set(); a step that is not a handler's (a worker's step) leaves both as
\* they are.
C28_WorkerNeverWritesRunState ==
    [][/\ is_running' # is_running
            => \E h \in Handlers :
                  hd[h].pc \in {"start_set", "stop_set", "pause_set"} /\ hd'[h] # hd[h]
       /\ stop_event' # stop_event
            => \E h \in Handlers :
                  hd[h].pc \in {"start_clear", "stop_evt"} /\ hd'[h] # hd[h]
       /\ hd' = hd => is_running' = is_running /\ stop_event' = stop_event]_vars

\* C28 witness: a worker has gone through a whole cycle and is in the
\* inter-cycle wait, and the run flag is up as start left it.
C28_Witness ==
    /\ is_running /\ stats.last_check
    /\ \E w \in Workers : wk[w].pc = "wait"
    /\ \A h \in Handlers : hd[h].pc = "idle"

\* No call of start, stop or restart is in progress.
ControllerAtRest == \A h \in Handlers : hd[h].pc = "idle"

\* C29: the controller at rest does not report Running without a worker that
\* runs further cycles: when is_running is up, the stop event is clear and
\* the worker thread is alive.
C29_StatusMatchesWorker ==
    (variant = "ctl" /\ ControllerAtRest /\ is_running)
       => (~stop_event /\ worker_thread # NoWorker /\ Alive(worker_thread))

\* The worker thread that start created is inside a cycle.
WorkerInCycle ==
    /\ worker_thread # NoWorker
    /\ wk[worker_thread].pc \in {"url", "entry", "send", "wait", "cooldown"}

\* C30: once start has returned and its worker has begun a cycle, the
\* last_check that the worker wrote is there: start's reset has not wiped it.
C30_ResetLosesNoUpdate ==
    (variant = "ctl" /\ ControllerAtRest /\ is_running /\ WorkerInCycle)
       => stats.last_check

\* C31: one publish delivers at most one message to the channel: the photo
\* or the text, never both.
C31_OneMessagePerPublish ==
    (unit.fn = "publish" /\ unit.done) => MessagesDelivered(unit.in, unit.out) <= 1

\* The publish of worker w cannot be counted: posts_sent is at the bound of
\* this model.
AtCounterBound(w) == wk[w].pc = "send" /\ stats.posts_sent >= MaxPosts

C33_EveryEntryPublished ==
    (unit.fn = "poll" /\ unit.done)
       => \A id \in 1..(unit.in.old + unit.in.gained) : id \in unit.out

\* The step in which worker w, just spawned, has made its load_history.
Loads(w) == wk[w].pc = "load" /\ wk'[w].pc = "top"

\* Nothing has been published since the last start reset the stats: every id
\* published so far was published before that start spawned its worker.
NoPublishSinceStart == stats.posts_sent = 0

\* C34: file: when the worker a start has spawned has loaded the history,
\* every id published before that start is in the dedup set (as long as no
\* trim has had to evict one: no more than MAX_HISTORY ids were published).
C34_RestartKeepsPublishedIds ==
    [][\A w \in Workers :
          (/\ variant = "file" /\ Loads(w)
           /\ NoPublishSinceStart /\ Cardinality(recorded) <= MAX_HISTORY)
             => recorded \subseteq sent']_vars



\* The step in which stop (or pause) is invoked on handler h by its command.
StopInvoked(h) == Stop_Command(h) \/ Pause_Command(h)

=============================================================================
